---- MODULE Spec2Model ----
(***************************************************************************)
(* prefgen.py: the line scanner / tree builder parseAsciiDoc and the       *)
(* renderers that read its result.  Strings are TLA+ strings (sequences    *)
(* of characters); a character is a string of length one.  The defining    *)
(* semantics is that of Python 2, the language the program is written in.  *)
(***************************************************************************)
EXTENDS Integers, Sequences, FiniteSets, TLC

VARIABLES
    pc,          \* where the run is: scan, nest, parsed, resource, settings, activity, done, error
    exc,         \* name of the exception that ended the run, "" if none
    nread,       \* number of input lines read so far
    line,        \* the line read last, as it is in the file
    mode,        \* parseAsciiDoc: mode
    inComment,   \* parseAsciiDoc: inComment
    keys,        \* parseAsciiDoc: keys, then Parsed.keys
    linear,      \* parseAsciiDoc: linear, then Parsed.linear (the Items, by position)
    idx,         \* position of the second loop of parseAsciiDoc in linear
    root,        \* parseAsciiDoc: root, then Parsed.root (a position in linear, 0 for None)
    stack,       \* parseAsciiDoc: stack (positions in linear)
    strings,     \* parseAsciiDoc: strings, then Parsed.strings (text -> identifier)
    layoutOut,   \* what outputLayoutXml wrote
    resourceOut, \* what outputResourceStringsXml wrote
    settingsOut, \* what outputSettingsClass wrote
    activityOut  \* whether outputActivityClass wrote its class

vars == <<pc, exc, nread, line, mode, inComment, keys, linear, idx, root, stack,
          strings, layoutOut, resourceOut, settingsOut, activityOut>>

(***************************************************************************)
(* Bounds of the model: the number of lines of the documents explored.     *)
(***************************************************************************)
MaxDocLines == 3
MaxTreeLines == 5
MaxScanLines == 4
MaxListLines == 4

(***************************************************************************)
(* Characters and the str methods the program uses.                        *)
(***************************************************************************)
\* the printable ASCII characters 32..95 and 97..126, in code order (96, the
\* backquote, cannot be written in a TLA+ string and is in no document explored)
AsciiLow == " !\"#$%&'()*+,-./0123456789:;<=>?@ABCDEFGHIJKLMNOPQRSTUVWXYZ[\\]^_"

AsciiHigh == "abcdefghijklmnopqrstuvwxyz{|}~"

Char(s, i) == SubSeq(s, i, i)

\* string.whitespace, what str.strip() removes: space, \t, \n, \r, \f and the
\* vertical tab (code 11, written as the character itself)
Whitespace == {" ", "\t", "\n", "\r", "\f", ""}

\* the characters of the documents
Chars ==
    {Char(AsciiLow, i) : i \in 1..Len(AsciiLow)}
        \cup {Char(AsciiHigh, i) : i \in 1..Len(AsciiHigh)} \cup Whitespace

\* ord, as a table
OrdOf ==
    [c \in Chars |->
        IF c = "\t" THEN 9
        ELSE IF c = "\n" THEN 10
        ELSE IF c = "" THEN 11
        ELSE IF c = "\f" THEN 12
        ELSE IF c = "\r" THEN 13
        ELSE IF \E i \in 1..Len(AsciiLow) : Char(AsciiLow, i) = c
        THEN 31 + CHOOSE i \in 1..Len(AsciiLow) : Char(AsciiLow, i) = c
        ELSE 96 + CHOOSE i \in 1..Len(AsciiHigh) : Char(AsciiHigh, i) = c]

\* ord(c)
Ord(c) == OrdOf[c]

\* chr(n)
Chr(n) == IF n < 96 THEN Char(AsciiLow, n - 31) ELSE Char(AsciiHigh, n - 96)

\* string.punctuation
Punctuation ==
    {c \in Chars : \/ OrdOf[c] \in 33..47
                   \/ OrdOf[c] \in 58..64
                   \/ OrdOf[c] \in 91..96
                   \/ OrdOf[c] \in 123..126}

IsPunctuation(c) == c \in Punctuation

\* str.lower and str.upper on one character, as tables
LowerOf == [c \in Chars |-> IF OrdOf[c] \in 65..90 THEN Chr(OrdOf[c] + 32) ELSE c]

UpperOf == [c \in Chars |-> IF OrdOf[c] \in 97..122 THEN Chr(OrdOf[c] - 32) ELSE c]

LowerChar(c) == LowerOf[c]

UpperChar(c) == UpperOf[c]

RECURSIVE MapChars(_, _, _)
\* the characters of s from position i on, each c replaced by the string f[c]
MapChars(f, s, i) ==
    IF i > Len(s) THEN "" ELSE f[Char(s, i)] \o MapChars(f, s, i + 1)

\* str.lower
Lower(s) == MapChars(LowerOf, s, 1)

\* str.upper
Upper(s) == MapChars(UpperOf, s, 1)

\* str.capitalize
Capitalize(s) ==
    IF s = "" THEN "" ELSE UpperChar(Char(s, 1)) \o Lower(SubSeq(s, 2, Len(s)))

\* s.translate(None, string.punctuation)
RemovePunctuation(s) ==
    MapChars([c \in Chars |-> IF IsPunctuation(c) THEN "" ELSE c], s, 1)

\* s.replace(a, b), a a single character
Replace(s, a, b) == MapChars([c \in Chars |-> IF c = a THEN b ELSE c], s, 1)

\* s.startswith(p)
StartsWith(s, p) == Len(s) >= Len(p) /\ SubSeq(s, 1, Len(p)) = p

\* s.endswith(p)
EndsWith(s, p) == Len(s) >= Len(p) /\ SubSeq(s, Len(s) - Len(p) + 1, Len(s)) = p

RECURSIVE LStrip(_)
LStrip(s) ==
    IF s # "" /\ Char(s, 1) \in Whitespace THEN LStrip(SubSeq(s, 2, Len(s))) ELSE s

RECURSIVE RStrip(_)
RStrip(s) ==
    IF s # "" /\ Char(s, Len(s)) \in Whitespace
    THEN RStrip(SubSeq(s, 1, Len(s) - 1)) ELSE s

\* s.strip()
Strip(s) == RStrip(LStrip(s))

\* s[0:-n]
DropLast(s, n) == IF Len(s) > n THEN SubSeq(s, 1, Len(s) - n) ELSE ""

\* s[n:]
DropFirst(s, n) == IF Len(s) > n THEN SubSeq(s, n + 1, Len(s)) ELSE ""

\* position of the first c in s at or after position i, 0 if there is none
RECURSIVE Find(_, _, _)
Find(s, c, i) ==
    IF i > Len(s) THEN 0
    ELSE IF Char(s, i) = c THEN i
    ELSE Find(s, c, i + 1)

\* s.split(c), c a single character
RECURSIVE Split(_, _)
Split(s, c) ==
    LET p == Find(s, c, 1)
    IN  IF p = 0 THEN <<s>>
        ELSE <<SubSeq(s, 1, p - 1)>> \o Split(DropFirst(s, p), c)

\* s.split(c, 1)
SplitOnce(s, c) ==
    LET p == Find(s, c, 1)
    IN  IF p = 0 THEN <<s>> ELSE <<SubSeq(s, 1, p - 1), DropFirst(s, p)>>

\* sep.join(parts)
RECURSIVE Join(_, _)
Join(parts, sep) ==
    IF Len(parts) = 0 THEN ""
    ELSE IF Len(parts) = 1 THEN parts[1]
    ELSE parts[1] \o sep \o Join(Tail(parts), sep)

\* str(n), n >= 0
RECURSIVE Str(_)
Str(n) == IF n < 10 THEN Chr(48 + n) ELSE Str(n \div 10) \o Chr(48 + (n % 10))

\* a < b for two strings
RECURSIVE StrLess(_, _)
StrLess(a, b) ==
    IF b = "" THEN FALSE
    ELSE IF a = "" THEN TRUE
    ELSE IF Char(a, 1) = Char(b, 1) THEN StrLess(DropFirst(a, 1), DropFirst(b, 1))
    ELSE Ord(Char(a, 1)) < Ord(Char(b, 1))

(***************************************************************************)
(* class Item.  An Item is a record; item.level is the integer level       *)
(* unless a ':level:' directive has overwritten it with a string, which    *)
(* levelIsStr tells and levelStr holds.  items holds the children as       *)
(* positions in linear.  enumValues is the text of the directive and       *)
(* enumList the list the second pass of parseAsciiDoc replaces it with.    *)
(***************************************************************************)
ATTRS == <<"level", "title", "key", "defaultValue", "type", "summary",
           "help", "dialogLayout", "enumValues">>

LEVEL_TOP == 1
LEVEL_SCREEN == 2
LEVEL_CATEGORY == 3
LEVEL_ITEM == 4

MODE_SEARCHING == 0
MODE_TITLE == 1
MODE_SUMMARY == 2
MODE_HELP == 3

\* Item.TYPES, with "None" for None
TYPES == <<"", "PreferenceScreen", "PreferenceCategory", "None">>

BOOLEANS == <<"(Y/N)", "(T/F)", "(ON/OFF)">>

\* the first suffix of BOOLEANS that title.upper() ends with, 0 if none
BooleanSuffix(title) ==
    IF \E i \in 1..Len(BOOLEANS) : EndsWith(Upper(title), BOOLEANS[i])
    THEN CHOOSE i \in 1..Len(BOOLEANS) :
            /\ EndsWith(Upper(title), BOOLEANS[i])
            /\ \A j \in 1..(i - 1) : ~EndsWith(Upper(title), BOOLEANS[j])
    ELSE 0

\* the exception Item(line) raises, "" if it constructs the Item
ItemError(l) ==
    LET parts == SplitOnce(l, " ")
    IN  IF Len(parts) # 2 THEN "ValueError"
        ELSE IF Len(parts[1]) > Len(TYPES) THEN "IndexError"
        ELSE ""

\* Item.__init__
Item(l) ==
    LET parts == SplitOnce(l, " ")
        level == Len(parts[1])
        title == parts[2]
        b     == IF TYPES[level] = "None" THEN BooleanSuffix(title) ELSE 0
    IN  [ level        |-> level,
          levelIsStr   |-> FALSE,
          levelStr     |-> "",
          title        |-> IF b # 0 THEN Strip(DropLast(title, Len(BOOLEANS[b])))
                           ELSE title,
          key          |-> "",
          defaultValue |-> IF b # 0 THEN "false" ELSE "",
          type         |-> IF TYPES[level] # "None" THEN TYPES[level]
                           ELSE IF b # 0 THEN "CheckBoxPreference"
                           ELSE "EditTextPreference",
          summary      |-> "",
          help         |-> "",
          dialogLayout |-> "",
          enumValues   |-> "",
          enumList     |-> <<>>,
          enumName     |-> "",
          listItems    |-> <<>>,
          items        |-> <<>> ]

\* the append of Item.addText
AppendText(start, end) == IF Len(start) > 0 THEN start \o " " \o end ELSE end

\* Item.addText
addText(item, m, l) ==
    IF m = MODE_TITLE THEN [item EXCEPT !.title = AppendText(item.title, l)]
    ELSE IF m = MODE_SUMMARY THEN [item EXCEPT !.summary = AppendText(item.summary, l)]
    ELSE IF m = MODE_HELP THEN [item EXCEPT !.help = AppendText(item.help, l)]
    ELSE item

\* item.__dict__[attr] = value
SetAttr(item, attr, value) ==
    IF attr = "level" THEN [item EXCEPT !.levelIsStr = TRUE, !.levelStr = value]
    ELSE [item EXCEPT ![attr] = value]

\* the first attribute of ATTRS the directive line names, 0 if none
DirectiveAttr(l) ==
    IF \E i \in 1..Len(ATTRS) : StartsWith(l, ":" \o ATTRS[i] \o ":")
    THEN CHOOSE i \in 1..Len(ATTRS) :
            /\ StartsWith(l, ":" \o ATTRS[i] \o ":")
            /\ \A j \in 1..(i - 1) : ~StartsWith(l, ":" \o ATTRS[j] \o ":")
    ELSE 0

\* line.split(':')[2].strip()
DirectiveValue(l) == Strip(Split(l, ":")[3])

\* stripDot
stripDot(s) == IF EndsWith(s, ".") THEN DropLast(s, 1) ELSE s

\* linear with its last Item replaced
SetLast(lin, item) == [lin EXCEPT ![Len(lin)] = item]

(***************************************************************************)
(* parseAsciiDoc, first loop: one line of the input.                       *)
(***************************************************************************)
\* the blank-line rule with SEARCHING not left out
BlankModeFromSearching(m) ==
    IF m >= MODE_SEARCHING /\ m <= MODE_SUMMARY THEN m + 1 ELSE m

\* the blank-line rule
BlankMode(m) == IF m > MODE_SEARCHING /\ m <= MODE_SUMMARY THEN m + 1 ELSE m

\* whether a ':' line is looked at at all
DirectiveGuard(m) == m # MODE_SEARCHING

\* the values the loop body starts from, no exception raised
Same ==
    [mode |-> mode, inComment |-> inComment, keys |-> keys, linear |-> linear,
     exc |-> ""]

\* the branch of a ':' line l that is looked at: a key for the document inside
\* a comment, an attribute of the last Item outside
Directive(l) ==
    IF inComment THEN
        IF StartsWith(l, ":key: ")
        THEN [Same EXCEPT !.keys = Append(keys, DropFirst(l, Len(":key: ")))]
        ELSE Same
    ELSE
        IF DirectiveAttr(l) # 0
        THEN [Same EXCEPT !.linear = SetLast(linear,
                SetAttr(linear[Len(linear)], ATTRS[DirectiveAttr(l)], DirectiveValue(l)))]
        ELSE Same

\* the body of the loop over the lines, as the values it leaves and the
\* exception it raises ("" if none)
ScanLine(raw) ==
    LET l == Strip(raw)
    IN  IF Len(l) = 0 THEN
            [Same EXCEPT !.mode = BlankMode(mode)]
        ELSE IF StartsWith(l, "//") THEN
            [Same EXCEPT !.inComment = ~inComment]
        ELSE IF Char(l, 1) = "*" THEN
            IF Len(linear) = 0 THEN [Same EXCEPT !.exc = "IndexError"]
            ELSE LET it == linear[Len(linear)]
                 IN  [Same EXCEPT !.linear = SetLast(linear,
                        [it EXCEPT !.listItems =
                                      Append(it.listItems, stripDot(Strip(DropFirst(l, 1)))),
                                   !.type = "ListPreference"])]
        ELSE IF Char(l, 1) = ":" THEN
            IF DirectiveGuard(mode) THEN Directive(l) ELSE Same
        ELSE IF Char(l, 1) \in {"=", "#"} THEN
            IF ItemError(l) # "" THEN [Same EXCEPT !.exc = ItemError(l)]
            ELSE [Same EXCEPT !.linear = Append(linear, Item(l)), !.mode = MODE_TITLE]
        ELSE
            IF Len(linear) = 0 THEN [Same EXCEPT !.exc = "IndexError"]
            ELSE [Same EXCEPT !.linear = SetLast(linear,
                                            addText(linear[Len(linear)], mode, l))]

\* the empty dictionary
EmptyDict == [k \in {} |-> ""]

Init ==
    /\ pc = "scan"
    /\ exc = ""
    /\ nread = 0
    /\ line = ""
    /\ mode = MODE_SEARCHING
    /\ inComment = FALSE
    /\ keys = <<>>
    /\ linear = <<>>
    /\ idx = 0
    /\ root = 0
    /\ stack = <<>>
    /\ strings = EmptyDict
    /\ layoutOut = <<>>
    /\ resourceOut = <<>>
    /\ settingsOut = [consts |-> <<>>, enums |-> <<>>, accessors |-> <<>>]
    /\ activityOut = FALSE

\* for line in args.input_file.readlines(): one iteration, on a document of at
\* most max lines
ReadLine(raw, max) ==
    /\ pc = "scan"
    /\ nread < max
    /\ LET r == ScanLine(raw)
       IN  /\ mode' = r.mode
           /\ inComment' = r.inComment
           /\ keys' = r.keys
           /\ linear' = r.linear
           /\ exc' = r.exc
           /\ pc' = IF r.exc # "" THEN "error" ELSE "scan"
    /\ nread' = nread + 1
    /\ line' = raw
    /\ UNCHANGED <<idx, root, stack, strings, layoutOut, resourceOut, settingsOut,
                   activityOut>>

\* the end of the input: the first loop ends and the second begins
EndOfInput ==
    /\ pc = "scan"
    /\ pc' = "nest"
    /\ idx' = 1
    /\ UNCHANGED <<exc, nread, line, mode, inComment, keys, linear, root, stack,
                   strings, layoutOut, resourceOut, settingsOut, activityOut>>

(***************************************************************************)
(* The identifier makers.                                                  *)
(***************************************************************************)
JAVA_KEYWORDS ==
    { "abstract", "assert", "boolean", "break", "byte",
      "case", "catch", "char", "class", "const", "continue", "default", "do",
      "double", "else", "enum", "export", "extends", "final", "finally",
      "float", "for", "goto", "if", "implements", "import", "instanceof",
      "int", "interface", "long", "native", "new", "package", "private",
      "protected", "public", "return", "short", "static", "strictfp",
      "super", "switch", "synchronized", "this", "throw", "throws",
      "transient", "try", "void", "volatile", "while" }

makeKey(s) == Replace(RemovePunctuation(Lower(s)), " ", "_")

\* the most words of a text that go into its identifier
MaxRefWords == 5

makeStringRef(s) ==
    LET words == Split(RemovePunctuation(Lower(s)), " ")
        kept  == IF Len(words) > MaxRefWords THEN SubSeq(words, 1, MaxRefWords) ELSE words
        ref   == Join(kept, "_")
    IN  IF ref \in JAVA_KEYWORDS THEN "_" \o ref \o "_" ELSE ref

\* the join of makeVar over parts; lowerNext tells that the generator has yet
\* to yield str.lower
RECURSIVE CamelCase(_, _)
CamelCase(parts, lowerNext) ==
    IF Len(parts) = 0 THEN ""
    ELSE IF parts[1] = "" THEN "_" \o CamelCase(Tail(parts), lowerNext)
    ELSE (IF lowerNext THEN Lower(parts[1]) ELSE Capitalize(parts[1]))
            \o CamelCase(Tail(parts), FALSE)

makeVar(s, initialLower) == CamelCase(Split(s, "_"), initialLower)

(***************************************************************************)
(* parseAsciiDoc, second loop: one Item of linear.                         *)
(***************************************************************************)
\* a.level <= b.level (Python 2 orders every int before every str)
LevelLE(a, b) ==
    IF ~a.levelIsStr /\ ~b.levelIsStr THEN a.level <= b.level
    ELSE IF ~a.levelIsStr THEN TRUE
    ELSE IF ~b.levelIsStr THEN FALSE
    ELSE a.levelStr = b.levelStr \/ StrLess(a.levelStr, b.levelStr)

\* a.level < b.level
LevelLT(a, b) == ~LevelLE(b, a)

\* item.level < n, n an int
LevelBelow(item, n) == ~item.levelIsStr /\ item.level < n

\* item.level == n, n an int
LevelIs(item, n) == ~item.levelIsStr /\ item.level = n

\* item.key, defaulted
WithKey(item) ==
    IF item.key = "" THEN [item EXCEPT !.key = makeKey(item.title)] ELSE item

\* the summary without its final period, and the title and summary cleared
\* where no resource is generated for them
WithTexts(item) ==
    LET it == [item EXCEPT !.summary = stripDot(item.summary)]
    IN  IF it.type \in {"", "PreferenceScreen", "PreferenceCategory"}
        THEN [it EXCEPT !.summary = "",
                        !.title = IF it.type # "PreferenceCategory" THEN "" ELSE it.title]
        ELSE it

\* strings[s] = makeStringRef(s)
Register(dict, s) ==
    IF s = "" THEN dict
    ELSE [k \in DOMAIN dict \cup {s} |-> IF k = s THEN makeStringRef(s) ELSE dict[k]]

\* the value of the counter n when the loop over listItems is at its j-th entry
\* (j from 1): n is set to 0 before the loop and the loop never changes it
CounterAt(j) == 0

\* position (from 1) of the first entry ending in '(default)', 0 if none
FirstDefault(listItems) ==
    IF \E j \in 1..Len(listItems) : EndsWith(listItems[j], "(default)")
    THEN CHOOSE j \in 1..Len(listItems) :
            /\ EndsWith(listItems[j], "(default)")
            /\ \A i \in 1..(j - 1) : ~EndsWith(listItems[i], "(default)")
    ELSE 0

\* the default value of a list and its entry without the '(default)' flag
WithDefault(item) ==
    IF Len(item.listItems) > 0 THEN
        LET j == FirstDefault(item.listItems)
        IN  IF j = 0 THEN [item EXCEPT !.defaultValue = "0"]
            ELSE LET n == CounterAt(j)
                 IN  [item EXCEPT
                        !.defaultValue = Str(n),
                        !.listItems[n + 1] =
                            Strip(DropLast(item.listItems[n + 1], Len("(default)")))]
    ELSE item

RECURSIVE StripAll(_)
StripAll(parts) ==
    IF Len(parts) = 0 THEN <<>> ELSE <<Strip(parts[1])>> \o StripAll(Tail(parts))

\* the enumerated values and the name of their type
WithEnum(item) ==
    IF item.enumValues # ""
    THEN [item EXCEPT
            !.enumList = StripAll(Split(item.enumValues, ",")),
            !.enumName = makeVar(Replace(item.title, " ", "_"), FALSE) \o "Enum"]
    ELSE item

\* everything the loop body fills in on the Item itself
Filled(item) == WithEnum(WithDefault(WithTexts(WithKey(item))))

\* the pop test with < for <=
PopTestStrict(item, top) == LevelLT(item, top)

\* whether the top of the stack is popped for item
PopTest(item, top) == LevelLE(item, top)

\* while item.level <= stack[-1].level: stack.pop(); the empty stack is the
\* IndexError of stack[-1]
RECURSIVE Popped(_, _, _)
Popped(st, item, lin) ==
    IF Len(st) = 0 THEN st
    ELSE IF PopTest(item, lin[st[Len(st)]]) THEN Popped(SubSeq(st, 1, Len(st) - 1), item, lin)
    ELSE st

\* the attach test with <= for >=
AttachTestReversed(item, top) == LevelLE(item, top)

\* whether item is attached to the top of the stack
AttachTest(item, top) == LevelLE(top, item)

\* whether an attached item is pushed
PushTest(item, top) == LevelLT(top, item) /\ LevelBelow(item, LEVEL_ITEM)

NestItem ==
    /\ pc = "nest"
    /\ idx <= Len(linear)
    /\ LET item == Filled(linear[idx])
           lin  == [linear EXCEPT ![idx] = item]
           st   == Popped(stack, item, lin)
       IN  /\ strings' = Register(Register(strings, item.title), item.summary)
           /\ IF root = 0 THEN
                 /\ root' = idx
                 /\ stack' = <<idx>>
                 /\ linear' = lin
                 /\ UNCHANGED <<pc, exc>>
              ELSE IF Len(st) = 0 THEN
                 /\ stack' = st
                 /\ linear' = lin
                 /\ pc' = "error"
                 /\ exc' = "IndexError"
                 /\ UNCHANGED root
              ELSE
                 LET top == st[Len(st)]
                 IN  /\ linear' = IF AttachTest(item, lin[top])
                                  THEN [lin EXCEPT ![top].items = Append(@, idx)]
                                  ELSE lin
                     /\ stack' = IF AttachTest(item, lin[top]) /\ PushTest(item, lin[top])
                                 THEN Append(st, idx)
                                 ELSE st
                     /\ UNCHANGED <<root, pc, exc>>
    /\ idx' = idx + 1
    /\ UNCHANGED <<nread, line, mode, inComment, keys, layoutOut, resourceOut,
                   settingsOut, activityOut>>

\* return Parsed(root, strings, linear, keys)
ReturnParsed ==
    /\ pc = "nest"
    /\ idx > Len(linear)
    /\ pc' = "parsed"
    /\ UNCHANGED <<exc, nread, line, mode, inComment, keys, linear, idx, root, stack,
                   strings, layoutOut, resourceOut, settingsOut, activityOut>>

(***************************************************************************)
(* Item.outputLayoutXml: what is written is a sequence of records, one per *)
(* element opened, written or closed; indent is the length of indentStr.   *)
(* ok is FALSE when a lookup in the string table raised KeyError, and out  *)
(* is then what had been written before.                                   *)
(***************************************************************************)
IndentLen(indent) == IF indent > 0 THEN (indent - 1) * 4 ELSE 0

\* whether the lambda ref of Item.pre finds s
RefFound(dict, s) == s \in DOMAIN dict

\* the lambda ref of Item.pre
Ref(dict, s) == "@string/" \o dict[s]

\* Item.pre. When a lookup raises, the writes made before it stay in the file:
\* the record of the cut-off element has the fields written so far and no more.
Pre(item, dict, ind) ==
    IF item.type = "" THEN
        [out |-> << [tag |-> "xml", indent |-> 0] >>, ok |-> TRUE]
    ELSE IF item.type = "PreferenceScreen" THEN
        [out |-> << [tag |-> "<PreferenceScreen", indent |-> ind, key |-> item.key] >>,
         ok |-> TRUE]
    ELSE IF item.type = "PreferenceCategory" THEN
        IF RefFound(dict, item.title)
        THEN [out |-> << [tag |-> "<PreferenceCategory", indent |-> ind,
                          title |-> Ref(dict, item.title)] >>,
              ok |-> TRUE]
        ELSE [out |-> << [tag |-> "<PreferenceCategory", indent |-> ind] >>,
              ok |-> FALSE]
    ELSE
        IF ~RefFound(dict, item.title)
        THEN [out |-> << [tag |-> "<" \o item.type, indent |-> ind,
                          key |-> item.key] >>,
              ok |-> FALSE]
        ELSE IF ~RefFound(dict, item.summary)
        THEN [out |-> << [tag |-> "<" \o item.type, indent |-> ind,
                          key |-> item.key, title |-> Ref(dict, item.title)] >>,
              ok |-> FALSE]
        ELSE [out |-> << [tag |-> "<" \o item.type, indent |-> ind, key |-> item.key,
                          title |-> Ref(dict, item.title),
                          summary |-> Ref(dict, item.summary),
                          defaultValue |-> item.defaultValue,
                          dialogLayout |-> item.dialogLayout,
                          entries |-> IF Len(item.listItems) > 0
                                      THEN "@array/" \o item.key \o "_array" ELSE "",
                          entryValues |-> IF Len(item.listItems) > 0
                                          THEN "@array/" \o item.key \o "_array_values"
                                          ELSE ""] >>,
              ok |-> TRUE]

\* Item.post
Post(item, ind) ==
    IF item.type \in {"PreferenceScreen", "PreferenceCategory"}
    THEN << [tag |-> "</" \o item.type, indent |-> ind] >>
    ELSE <<>>

RECURSIVE outputLayoutXml(_, _, _, _)
RECURSIVE LayoutChildren(_, _, _, _, _)
\* Item.outputLayoutXml of the Item at position i of lin
outputLayoutXml(lin, dict, i, indent) ==
    LET pre == Pre(lin[i], dict, IndentLen(indent))
    IN  IF ~pre.ok THEN pre
        ELSE LET sub == LayoutChildren(lin, dict, lin[i].items, 1, indent + 1)
             IN  IF ~sub.ok THEN [out |-> pre.out \o sub.out, ok |-> FALSE]
                 ELSE [out |-> pre.out \o sub.out \o Post(lin[i], IndentLen(indent)),
                       ok |-> TRUE]

\* for item in self.items: item.outputLayoutXml(args, indent + 1), from the
\* j-th child on
LayoutChildren(lin, dict, children, j, indent) ==
    IF j > Len(children) THEN [out |-> <<>>, ok |-> TRUE]
    ELSE LET first == outputLayoutXml(lin, dict, children[j], indent)
         IN  IF ~first.ok THEN first
             ELSE LET rest == LayoutChildren(lin, dict, children, j + 1, indent)
                  IN  [out |-> first.out \o rest.out, ok |-> rest.ok]

\* args.parsed.root.outputLayoutXml(args, 0)
OutputLayoutXml ==
    /\ pc = "parsed"
    /\ IF root = 0 THEN
          /\ pc' = "error"
          /\ exc' = "AttributeError"
          /\ UNCHANGED layoutOut
       ELSE LET r == outputLayoutXml(linear, strings, root, 0)
            IN  /\ layoutOut' = r.out
                /\ pc' = IF r.ok THEN "resource" ELSE "error"
                /\ exc' = IF r.ok THEN "" ELSE "KeyError"
    /\ UNCHANGED <<nread, line, mode, inComment, keys, linear, idx, root, stack,
                   strings, resourceOut, settingsOut, activityOut>>

(***************************************************************************)
(* outputResourceStringsXml: what is written is a sequence of records, one *)
(* per <string> and one per <string-array>.                                *)
(***************************************************************************)
\* the line written for the string k with the identifier v
StringLine(v, k) == "    <string name=\"" \o v \o "\">" \o k \o "</string>\n"

\* sorted(strings): the keys of dict in the order of their lines
RECURSIVE SortedByLine(_, _)
SortedByLine(dict, S) ==
    IF S = {} THEN <<>>
    ELSE LET m == CHOOSE x \in S : \A y \in S \ {x} :
                    StrLess(StringLine(dict[x], x), StringLine(dict[y], y))
         IN  <<m>> \o SortedByLine(dict, S \ {m})

\* xml.sax.saxutils.escape with the entities of quoteattr
EscapeChar(c) ==
    IF c = "&" THEN "&amp;"
    ELSE IF c = ">" THEN "&gt;"
    ELSE IF c = "<" THEN "&lt;"
    ELSE IF c = "\n" THEN "&#10;"
    ELSE IF c = "\r" THEN "&#13;"
    ELSE IF c = "\t" THEN "&#9;"
    ELSE c

\* xml.sax.saxutils.quoteattr
quoteattr(data) ==
    LET e == MapChars([c \in Chars |-> EscapeChar(c)], data, 1)
    IN  IF Find(e, "\"", 1) # 0
        THEN IF Find(e, "'", 1) # 0
             THEN "\"" \o MapChars([c \in Chars |-> IF c = "\"" THEN "&quot;" ELSE c], e, 1)
                    \o "\""
             ELSE "'" \o e \o "'"
        ELSE "\"" \o e \o "\""

\* the <string> entries, sorted
StringEntries(dict) ==
    LET order == SortedByLine(dict, DOMAIN dict)
    IN  [n \in 1..Len(order) |->
            [tag |-> "string", name |-> dict[order[n]], text |-> order[n]]]

\* the two arrays of a list
ArrayEntries(item) ==
    << [tag |-> "string-array", name |-> item.key \o "_array",
        items |-> [n \in 1..Len(item.listItems) |-> quoteattr(item.listItems[n])]],
       [tag |-> "string-array", name |-> item.key \o "_array_values",
        items |-> [n \in 1..Len(item.listItems) |-> Str(n - 1)]] >>

\* the arrays of the lists of lin from position i on
RECURSIVE Arrays(_, _)
Arrays(lin, i) ==
    IF i > Len(lin) THEN <<>>
    ELSE (IF Len(lin[i].listItems) > 0 THEN ArrayEntries(lin[i]) ELSE <<>>)
            \o Arrays(lin, i + 1)

OutputResourceStringsXml ==
    /\ pc = "resource"
    /\ resourceOut' = StringEntries(strings) \o Arrays(linear, 1)
    /\ pc' = "settings"
    /\ UNCHANGED <<exc, nread, line, mode, inComment, keys, linear, idx, root, stack,
                   strings, layoutOut, settingsOut, activityOut>>

(***************************************************************************)
(* outputSettingsClass: what is written is the key constants, the enums    *)
(* and the accessor pairs.  The class name comes from the name of the      *)
(* output file and the package from the command line; neither is read from *)
(* the parsed document and neither is modelled.                            *)
(***************************************************************************)
\* sorted(seq) for a list of strings
RECURSIVE Insert(_, _)
Insert(sorted, x) ==
    IF Len(sorted) = 0 THEN <<x>>
    ELSE IF StrLess(x, sorted[1]) THEN <<x>> \o sorted
    ELSE <<sorted[1]>> \o Insert(Tail(sorted), x)

RECURSIVE Sorted(_)
Sorted(seq) ==
    IF Len(seq) = 0 THEN <<>> ELSE Insert(Sorted(SubSeq(seq, 1, Len(seq) - 1)), seq[Len(seq)])

\* items = [i for i in args.parsed.linear if i.level == i.LEVEL_ITEM]
RECURSIVE LeafItems(_, _)
LeafItems(lin, i) ==
    IF i > Len(lin) THEN <<>>
    ELSE (IF LevelIs(lin[i], LEVEL_ITEM) THEN <<lin[i]>> ELSE <<>>) \o LeafItems(lin, i + 1)

\* the keys of a list of Items
ItemKeys(items) == [n \in 1..Len(items) |-> items[n].key]

\* for i in items: args.parsed.keys.append(i.key)
KeysAfterSettings(ks, items) == ks \o ItemKeys(items)

KeyName(key) == "PREF_" \o Upper(Replace(key, ".", "_"))

KeyConstants(ks) ==
    LET order == Sorted(ks)
    IN  [n \in 1..Len(order) |-> [name |-> KeyName(order[n]), value |-> order[n]]]

HasEnum(item) == Len(item.enumList) > 0

RECURSIVE Enums(_)
Enums(items) ==
    IF Len(items) = 0 THEN <<>>
    ELSE (IF HasEnum(items[1])
          THEN << [name |-> items[1].enumName, values |-> items[1].enumList] >>
          ELSE <<>>) \o Enums(Tail(items))

TYPEMAP == {"EditTextPreference", "CheckBoxPreference", "ListPreference"}

\* TYPEMAP[i.type](i): the Java type and the method type
JavaTypes(item) ==
    IF item.type = "CheckBoxPreference" THEN <<"boolean", "Boolean">>
    ELSE IF item.type = "ListPreference" /\ HasEnum(item) THEN <<item.enumName, "EnumInt">>
    ELSE <<"String", "String">>

Accessor(item) ==
    LET types     == JavaTypes(item)
        methodKey == Replace(item.key, ".", "_")
        keyName   == "PREF_" \o Upper(methodKey)
        get       == "get" \o types[2] \o "(" \o keyName \o ", " \o item.defaultValue \o ")"
    IN  [ javaType |-> types[1],
          getter   |-> makeVar("get_" \o methodKey, TRUE),
          call     |-> IF HasEnum(item) THEN item.enumName \o ".values()[" \o get \o "]"
                       ELSE get,
          setter   |-> makeVar("set_" \o methodKey, TRUE),
          put      |-> "put" \o types[2] \o "(" \o keyName \o ", value"
                          \o (IF HasEnum(item) THEN ".ordinal()" ELSE "") \o ")" ]

RECURSIVE Accessors(_)
Accessors(items) ==
    IF Len(items) = 0 THEN <<>>
    ELSE (IF items[1].type \in TYPEMAP THEN <<Accessor(items[1])>> ELSE <<>>)
            \o Accessors(Tail(items))

OutputSettingsClass ==
    /\ pc = "settings"
    /\ LET items == LeafItems(linear, 1)
           ks    == KeysAfterSettings(keys, items)
       IN  /\ keys' = ks
           /\ settingsOut' = [consts    |-> KeyConstants(ks),
                              enums     |-> Enums(items),
                              accessors |-> Accessors(items)]
    /\ pc' = "activity"
    /\ UNCHANGED <<exc, nread, line, mode, inComment, linear, idx, root, stack,
                   strings, layoutOut, resourceOut, activityOut>>

\* outputActivityClass: text that does not depend on the parsed document
OutputActivityClass ==
    /\ pc = "activity"
    /\ activityOut' = TRUE
    /\ pc' = "done"
    /\ UNCHANGED <<exc, nread, line, mode, inComment, keys, linear, idx, root, stack,
                   strings, layoutOut, resourceOut, settingsOut>>

\* the stage of __main__ after a stage
NextStage(stage) ==
    IF stage = "parsed" THEN "resource"
    ELSE IF stage = "resource" THEN "settings"
    ELSE IF stage = "settings" THEN "activity"
    ELSE "done"

\* __main__: an output whose file was not asked for on the command line
SkipOutput ==
    /\ pc \in {"parsed", "resource", "settings", "activity"}
    /\ pc' = NextStage(pc)
    /\ UNCHANGED <<exc, nread, line, mode, inComment, keys, linear, idx, root, stack,
                   strings, layoutOut, resourceOut, settingsOut, activityOut>>

(***************************************************************************)
(* The documents explored and the specifications.                          *)
(***************************************************************************)
\* a screen with one field: its title, its summary and its key
DocLines == {"", "= Settings", "==== Foo Bar", "foo bar.", ":key: foo", ":key: a:b"}

\* headers of every level, and a level set by a directive
TreeLines == {"= Top", "== Screen", "=== Category", "==== Field", "===== Deep",
              ":level: 2"}

\* one line of every kind the scanner tells apart
ScanLines == {"", "//", "* Low.", ":key: k", ":toc:", ":summary: S", "== Screen",
              "==Screen", "some text", "== Tab"}

\* a list and its entries
ListLines == {"==== Volume", "* Low", "* Medium (default)", "* High"}

\* parseAsciiDoc on the documents of at most max lines over L
NextParse(L, max) ==
    \/ \E raw \in L : ReadLine(raw, max)
    \/ EndOfInput
    \/ NestItem
    \/ ReturnParsed

NextRender ==
    \/ OutputLayoutXml
    \/ OutputResourceStringsXml
    \/ OutputSettingsClass
    \/ OutputActivityClass
    \/ SkipOutput

Next == NextParse(DocLines, MaxDocLines) \/ NextRender

Spec == Init /\ [][Next]_vars

SpecTree == Init /\ [][NextParse(TreeLines, MaxTreeLines)]_vars

SpecScan == Init /\ [][NextParse(ScanLines, MaxScanLines)]_vars

SpecList == Init /\ [][NextParse(ListLines, MaxListLines)]_vars

(***************************************************************************)
(* The tree rooted at Parsed.root.                                         *)
(***************************************************************************)
Positions == 1..Len(linear)

\* the children of the Item at position p
Children(p) == {linear[p].items[k] : k \in 1..Len(linear[p].items)}

\* the Items that have the Item at position n as a child
Parents(n) == {p \in Positions : n \in Children(p)}

\* how many times n is listed as a child
Occurrences(n) ==
    Cardinality({<<p, k>> \in Positions \X Positions :
                    k <= Len(linear[p].items) /\ linear[p].items[k] = n})

RECURSIVE Ancestors(_)
Ancestors(n) == Parents(n) \cup UNION {Ancestors(p) : p \in Parents(n)}

RECURSIVE PreOrder(_)
RECURSIVE PreOrderOf(_, _)
\* the depth-first pre-order walk from the Item at position p
PreOrder(p) == <<p>> \o PreOrderOf(linear[p].items, 1)

PreOrderOf(children, k) ==
    IF k > Len(children) THEN <<>>
    ELSE PreOrder(children[k]) \o PreOrderOf(children, k + 1)

\* a.level == b.level
LevelEq(a, b) == LevelLE(a, b) /\ LevelLE(b, a)

(***************************************************************************)
(* C1: when parseAsciiDoc returns, every ancestor of a node of the tree    *)
(* -- its parent first of all -- has a level strictly less than the node's *)
(* own, and no two ancestors of a node have the same level.  Levels are    *)
(* compared as the program compares them.                                  *)
(***************************************************************************)
C1_TreeDepth ==
    pc = "parsed" =>
        \A n \in Positions :
            /\ \A p \in Parents(n) : LevelLT(linear[p], linear[n])
            /\ \A a \in Ancestors(n) : LevelLT(linear[a], linear[n])
            /\ \A a, b \in Ancestors(n) : a # b => ~LevelEq(linear[a], linear[b])

\* a returned tree three levels deep in which the stack was popped: the root
\* has two children and the first of them has a child of its own
C1_Witness ==
    /\ pc = "parsed"
    /\ Len(linear) >= 4
    /\ Len(linear[1].items) = 2
    /\ Len(linear[linear[1].items[1]].items) >= 1

(***************************************************************************)
(* C9: when parseAsciiDoc returns, the first Item is the root, every later *)
(* Item is listed once as a child, of one parent, the root is nobody's     *)
(* child, and the pre-order walk from the root is linear in its order.     *)
(***************************************************************************)
C9_PreOrderIsLinear ==
    pc = "parsed" =>
        IF Len(linear) = 0 THEN root = 0
        ELSE /\ root = 1
             /\ Occurrences(1) = 0
             /\ \A n \in Positions \ {1} :
                    Occurrences(n) = 1 /\ Cardinality(Parents(n)) = 1
             /\ PreOrder(root) = [n \in Positions |-> n]

\* a returned tree of five Items in which a category follows the fields of an
\* earlier category
C9_Witness ==
    /\ pc = "parsed"
    /\ Len(linear) = 5
    /\ \E p \in Positions : Len(linear[p].items) = 2 /\ linear[p].items = <<3, 5>>
    /\ Len(linear[3].items) = 1

(***************************************************************************)
(* The kinds of line the scanner tells apart, in the order it tests them.  *)
(***************************************************************************)
\* a step of the loop over the lines: line' is the line it read
ReadsLine == nread' = nread + 1

IsBlankLine(raw) == Len(Strip(raw)) = 0

IsCommentLine(raw) == StartsWith(Strip(raw), "//")

IsListLine(raw) ==
    ~IsBlankLine(raw) /\ ~IsCommentLine(raw) /\ Char(Strip(raw), 1) = "*"

IsDirectiveLine(raw) ==
    ~IsBlankLine(raw) /\ ~IsCommentLine(raw) /\ Char(Strip(raw), 1) = ":"

IsHeaderLine(raw) ==
    ~IsBlankLine(raw) /\ ~IsCommentLine(raw) /\ Char(Strip(raw), 1) \in {"=", "#"}

\* a ':key: v' line, and its v
IsKeyLine(raw) == StartsWith(Strip(raw), ":key: ")

KeyOfLine(raw) == DropFirst(Strip(raw), Len(":key: "))

(***************************************************************************)
(* C7: the mode is always one of SEARCHING, TITLE, SUMMARY, HELP; a header *)
(* line of which an Item is made sets it to TITLE; a blank line moves      *)
(* TITLE to SUMMARY and SUMMARY to HELP and leaves SEARCHING and HELP;     *)
(* every other line, and every step that reads no line, leaves it; once a  *)
(* header has been read the mode is never SEARCHING.                       *)
(***************************************************************************)
C7_ModeTransitions ==
    /\ [](mode \in {MODE_SEARCHING, MODE_TITLE, MODE_SUMMARY, MODE_HELP})
    /\ [][IF ~ReadsLine \/ exc' # "" THEN mode' = mode
          ELSE IF IsBlankLine(line') THEN
                  mode' = IF mode = MODE_TITLE THEN MODE_SUMMARY
                          ELSE IF mode = MODE_SUMMARY THEN MODE_HELP
                          ELSE mode
          ELSE IF IsHeaderLine(line') THEN mode' = MODE_TITLE
          ELSE mode' = mode]_vars
    /\ [][mode # MODE_SEARCHING => mode' # MODE_SEARCHING]_vars
    /\ [](Len(linear) > 0 => mode # MODE_SEARCHING)

\* a blank line has just been read in HELP, after a header and two blank lines
C7_Witness ==
    /\ pc = "scan"
    /\ mode = MODE_HELP
    /\ nread = 4
    /\ IsBlankLine(line)
    /\ Len(linear) = 1

(***************************************************************************)
(* C8: while the inside-comment flag is set, every ':key: v' line read     *)
(* appends v      to the override key list and changes no attribute of any *)
(* Item; while it is clear, a ':' line never changes the override key      *)
(* list; a ':' line that names no recognized attribute changes neither the *)
(* Items nor the override key list.                                        *)
(***************************************************************************)
C8_CommentKeys ==
    [][(ReadsLine /\ IsDirectiveLine(line')) =>
          /\ (inComment /\ IsKeyLine(line')) =>
                keys' = Append(keys, KeyOfLine(line')) /\ linear' = linear
          /\ ~inComment => keys' = keys
          /\ DirectiveAttr(Strip(line')) = 0 => linear' = linear /\ keys' = keys]_vars

(***************************************************************************)
(* C4: a ':' line before any header line, and a '*' line before any        *)
(* level-4 Item exists, each end the run with an error.                    *)
(***************************************************************************)
C4_StructuralErrors ==
    [][ReadsLine =>
          /\ (IsDirectiveLine(line') /\ Len(linear) = 0) => exc' # ""
          /\ (IsListLine(line')
                /\ ~\E i \in 1..Len(linear) : LevelIs(linear[i], LEVEL_ITEM))
                => exc' # ""]_vars

(***************************************************************************)
(* C2: the second loop of parseAsciiDoc leaves a leaf that has list items  *)
(* with defaultValue the decimal string of the 0-based index of its entry  *)
(* ending in '(default)', that entry without the suffix and every other    *)
(* entry as it was; with '0' and the entries as they were if no entry is   *)
(* flagged.  Low, Medium (default), High give '1' and Low, Medium, High.   *)
(***************************************************************************)
C2_ListDefault ==
    [][(pc = "nest" /\ idx' = idx + 1 /\ LevelIs(linear[idx], LEVEL_ITEM)
          /\ Len(linear[idx].listItems) > 0) =>
          LET old == linear[idx].listItems
              new == linear'[idx]
              j   == FirstDefault(old)
          IN  /\ IF j = 0
                 THEN new.defaultValue = "0" /\ new.listItems = old
                 ELSE /\ new.defaultValue = Str(j - 1)
                      /\ new.listItems =
                            [old EXCEPT ![j] = Strip(DropLast(old[j], Len("(default)")))]
              /\ old = <<"Low", "Medium (default)", "High">> =>
                    /\ new.defaultValue = "1"
                    /\ new.listItems = <<"Low", "Medium", "High">>]_vars

(***************************************************************************)
(* C3: the string-resource output has one <string> entry for each distinct *)
(* non-empty title or summary of the parsed Items, the entries are in the  *)
(* order of their rendered lines, and no two entries have the same         *)
(* identifier.                                                             *)
(***************************************************************************)
\* the distinct non-empty titles and summaries
Texts ==
    ({linear[i].title : i \in Positions} \cup {linear[i].summary : i \in Positions})
        \ {""}

\* the <string> entries written
StringsWritten == SelectSeq(resourceOut, LAMBDA e : e.tag = "string")

C3_StringEntries ==
    (pc \in {"settings", "activity", "done"} /\ resourceOut # <<>>) =>
        LET out == StringsWritten
        IN  /\ Len(out) = Cardinality(Texts)
            /\ \A m, n \in 1..Len(out) :
                  m < n => StrLess(StringLine(out[m].name, out[m].text),
                                   StringLine(out[n].name, out[n].text))
            /\ \A m, n \in 1..Len(out) : m # n => out[m].name # out[n].name

(***************************************************************************)
(* C5: a leaf on which a ':key: v' directive was applied outside a comment *)
(* region (here by the last line of the document) has the key v after      *)
(* parsing, and the settings-class output has a key constant of value v,   *)
(* so that the leaf's constant is v and not the slug derived from its      *)
(* title; the second loop of parseAsciiDoc derives a key from the title    *)
(* only for an Item whose key is not set.                                  *)
(***************************************************************************)
C5_ExplicitKey ==
    /\ []((/\ pc \in {"parsed", "resource", "settings", "activity", "done"}
           /\ Len(linear) > 0
           /\ LevelIs(linear[Len(linear)], LEVEL_ITEM)
           /\ ~inComment
           /\ IsKeyLine(line)) =>
              LET leaf   == linear[Len(linear)]
                  v      == Strip(KeyOfLine(line))
                  consts == settingsOut.consts
              IN  /\ leaf.key = v
                  /\ Len(consts) > 0 => \E n \in 1..Len(consts) : consts[n].value = v)
    /\ [][(pc = "nest" /\ idx' = idx + 1 /\ linear[idx].key # "") =>
              linear'[idx].key = linear[idx].key]_vars

(***************************************************************************)
(* C6: once parseAsciiDoc has returned, no step changes Parsed.root,       *)
(* Parsed.strings, Parsed.linear or Parsed.keys.                           *)
(***************************************************************************)
C6_RenderersReadOnly ==
    [][(pc \in {"parsed", "resource", "settings", "activity", "done"}) =>
          (UNCHANGED <<root, strings, linear, keys>>)]_vars

(***************************************************************************)
(* C10: in every Parsed value returned, the title of each category and the *)
(* title and the summary of each Item of another type than root, screen    *)
(* and category are keys of Parsed.strings, and the layout renderer never  *)
(* ends in a KeyError.                                                     *)
(***************************************************************************)
C10_LayoutRefsFound ==
    /\ pc = "parsed" =>
          \A i \in Positions :
             /\ linear[i].type = "PreferenceCategory" => RefFound(strings, linear[i].title)
             /\ linear[i].type \notin {"", "PreferenceScreen", "PreferenceCategory"} =>
                   /\ RefFound(strings, linear[i].title)
                   /\ RefFound(strings, linear[i].summary)
    /\ exc # "KeyError"

====
